---- MODULE Spec2Model ----
(***************************************************************************)
(* A model of accrescent.py: the repository watcher that fetches the app   *)
(* feed with bounded retries, validates and diffs it against the known     *)
(* state, persists the state atomically and honours SIGTERM/SIGINT.        *)
(*                                                                         *)
(* Time is counted in ticks of one second.  A time.sleep(t) occupies       *)
(* ceil(t) ticks; a signal handler that returns normally does not cut a    *)
(* time.sleep short (PEP 475), it only sets the shutdown flag.             *)
(***************************************************************************)
EXTENDS Integers, Sequences, FiniteSets, TLC

VARIABLES
    \* configuration (argparse, lines 246-255) and fetch_apps parameters
    once, max_failures, interval, retries, base_delay,
    \* main()
    pc, poll, consecutive_failures, state, first_run, shutdown,
    pending, exit_status,
    \* fetch_apps() locals and its outcome
    attempt, delay, fetched,
    \* the running time.sleep, in ticks still to go
    sleepLeft,
    \* the file system: the state file, its .tmp sibling
    file, tmp, tmp_synced,
    \* ERROR-level records in the log
    errors_logged,
    \* history (observation only, never read by an action's guard)
    gets, last_raised, exit_reason, last_good, exit_saves,
    signal_at, ticks_since_signal, writes_since_signal, old_file,
    outcomes,
    \* the added/removed/updated/cert_changed lists of the last cycle
    reported,
    \* a function applied on its own: its arguments, then its result
    call,
    \* two instances saving to one path: the directory and inodes, and each
    \* instance's position, descriptor and outcome
    fsys, procs

vars == << once, max_failures, interval, retries, base_delay,
           pc, poll, consecutive_failures, state, first_run, shutdown,
           pending, exit_status, attempt, delay, fetched, sleepLeft,
           file, tmp, tmp_synced, errors_logged,
           gets, last_raised, exit_reason, last_good, exit_saves,
           signal_at, ticks_since_signal, writes_since_signal, old_file,
           outcomes, reported, call, fsys, procs >>

----------------------------------------------------------------------------
\* Bounds of the model

MaxRetries == 3
MaxFailures == 2
MaxInterval == 2
MaxPolls == 3
MaxElapsed == 1
TickCap == 2
\* the longest run of consecutive failed cycles whose backoff is computed
MaxStreak == 6

\* Program constants

DefaultRetries == 3
DefaultBaseDelay == 5
MaxBackoffMultiplier == 8
ChunkSeconds == 1

----------------------------------------------------------------------------
\* Values

\* Python's Optional: None is the empty tuple, a present value v is <<v>>.
None == <<>>
Some(v) == <<v>>

Min(a, b) == IF a < b THEN a ELSE b
Max(a, b) == IF a > b THEN a ELSE b
CeilDiv(a, b) == (a + b - 1) \div b

RECURSIVE Pow2(_)
Pow2(n) == IF n <= 0 THEN 1 ELSE 2 * Pow2(n - 1)

\* Package ids in lexicographic order.
PkgOrder == << "com.a", "com.b", "com.c" >>

EmptyDict == [p \in {} |-> None]

Meta(name, vc, hashes) ==
    [name |-> name, min_version_code |-> vc, signing_cert_hashes |-> hashes]

\* The "apps" mappings the endpoint serves in this model.
AppsA == [p \in {"com.a", "com.b"} |->
            IF p = "com.a" THEN Meta("A", Some(1), Some(<<"h1">>))
                           ELSE Meta("B", Some(1), Some(<<"h2">>))]
AppsB == [p \in {"com.a", "com.c"} |->
            IF p = "com.a" THEN Meta("A", Some(2), Some(<<"h1">>))
                           ELSE Meta("C", Some(1), Some(<<"h3">>))]
\* com.b lacks min_version_code: incomplete metadata.
AppsC == [p \in {"com.a", "com.b"} |->
            IF p = "com.a" THEN Meta("A", Some(1), Some(<<"h1">>))
                           ELSE Meta("B", None, Some(<<"h2">>))]

\* A decoded JSON body: whether it has the "apps" key, whether the value of
\* "apps" is a JSON object, that object, and the optional "timestamp".
Body(has_apps, is_mapping, apps, ts) ==
    [has_apps |-> has_apps, is_mapping |-> is_mapping, apps |-> apps,
     timestamp |-> ts]

NoBody == Body(FALSE, FALSE, EmptyDict, None)

\* What one GET can come to: the transport's result, the status class,
\* whether the body decodes as JSON, and the decoded body.
Response(transport, status_2xx, json_ok, data) ==
    [transport |-> transport, status_2xx |-> status_2xx, json_ok |-> json_ok,
     data |-> data]

Responses ==
    { Response("ok", TRUE, TRUE, Body(TRUE, TRUE, AppsA, Some(100))),
      Response("ok", TRUE, TRUE, Body(TRUE, TRUE, AppsB, None)),
      Response("ok", TRUE, TRUE, Body(TRUE, TRUE, AppsC, Some(200))),
      \* {"apps": []}: the key is there, its value is no object
      Response("ok", TRUE, TRUE, Body(TRUE, FALSE, EmptyDict, None)),
      Response("timeout", FALSE, FALSE, NoBody),
      Response("error", FALSE, FALSE, NoBody),
      \* a 503
      Response("ok", FALSE, FALSE, NoBody),
      \* 200 with a body that is not JSON
      Response("ok", TRUE, FALSE, NoBody),
      \* 200 {"timestamp": 100}: no "apps" key
      Response("ok", TRUE, TRUE, Body(FALSE, FALSE, EmptyDict, Some(100))) }

----------------------------------------------------------------------------
\* Exceptions

\* The direct base class of each exception class that occurs (httpx's and
\* the built-in hierarchy).
BaseOf(cls) ==
    CASE cls = "ReadTimeout"      -> "TimeoutException"
      [] cls = "TimeoutException" -> "TransportError"
      [] cls = "ConnectError"     -> "TransportError"
      [] cls = "TransportError"   -> "RequestError"
      [] cls = "RequestError"     -> "HTTPError"
      [] cls = "HTTPStatusError"  -> "HTTPError"
      [] cls = "HTTPError"        -> "Exception"
      [] cls = "JSONDecodeError"  -> "ValueError"
      [] cls = "ValueError"       -> "Exception"
      [] cls = "RuntimeError"     -> "Exception"
      [] cls = "AttributeError"   -> "Exception"
      [] cls = "Exception"        -> "BaseException"
      [] cls = "SystemExit"       -> "BaseException"
      [] OTHER                    -> "object"

RECURSIVE IsInstance(_, _)
IsInstance(cls, of) ==
    IF cls = of THEN TRUE
    ELSE IF cls \in {"object", "none"} THEN FALSE
    ELSE IsInstance(BaseOf(cls), of)

\* The classes fetch_apps' except clause names.
FetchCatches ==
    { "TimeoutException", "RequestError", "ValueError", "JSONDecodeError" }

CaughtByFetch(cls) == \E c \in FetchCatches : IsInstance(cls, c)

\* What the body of fetch_apps' try raises on a response ("none": nothing).
Raised(resp) ==
    IF resp.transport = "timeout" THEN "ReadTimeout"
    ELSE IF resp.transport = "error" THEN "ConnectError"
    ELSE IF ~resp.status_2xx THEN "HTTPStatusError"
    ELSE IF ~resp.json_ok THEN "JSONDecodeError"
    ELSE IF ~resp.data.has_apps THEN "ValueError"
    ELSE "none"

----------------------------------------------------------------------------
\* fetch_apps' outcome

NotFetched == [kind |-> "none", exc |-> "none", body |-> NoBody]
Returned(body) == [kind |-> "return", exc |-> "none", body |-> body]
Raise(cls) == [kind |-> "raise", exc |-> cls, body |-> NoBody]

\* random.uniform(0.5, 1.5) and random.uniform(0.8, 1.2), in tenths.
RetryJitter == {5, 10, 15}
BackoffJitter == {8, 10, 12}

\* Ticks taken by the sleep between two attempts: delay * jitter seconds.
RetrySleepTicks(d, jitter) == CeilDiv(d * jitter, 10)

\* Ticks of the escalated sleep after the failures-th consecutive failed
\* cycle: interval * min(2^(failures-1), 8) * jitter, less the elapsed time.
\* A multiplier that doubles without end.
BackoffUncapped(failures) == Pow2(failures - 1)

BackoffMultiplier(failures) == Min(Pow2(failures - 1), MaxBackoffMultiplier)

\* sleep_time and remaining_sleep of the failed cycle, in tenths of a second.
BackoffSleepTime(ivl, failures, jitter) ==
    ivl * BackoffMultiplier(failures) * jitter

RemainingSleep(ivl, failures, jitter, elapsed) ==
    Max(0, BackoffSleepTime(ivl, failures, jitter) - 10 * elapsed)

BackoffSleepTicks(ivl, failures, jitter, elapsed) ==
    CeilDiv(RemainingSleep(ivl, failures, jitter, elapsed), 10)

\* Ticks of the sleep after a successful cycle.
SleepFor(ivl, elapsed) == Max(0, ivl - elapsed)

----------------------------------------------------------------------------
\* The state file

Absent == [exists |-> FALSE, content |-> <<>>]
FileOf(content) == [exists |-> TRUE, content |-> content]

SortedKeys(d) == SelectSeq(PkgOrder, LAMBDA p : p \in DOMAIN d)

\* json.dump: the chunks written for a dict, an opening brace, one chunk per
\* key with its value, a closing brace.
Serialize(data) ==
    LET keys == SortedKeys(data) IN
    << <<"{">> >> \o [i \in 1..Len(keys) |-> <<keys[i], data[keys[i]]>>]
                 \o << <<"}">> >>

\* json.load: the dict a chunk sequence decodes to, or a JSONDecodeError.
JsonLoad(content) ==
    LET n == Len(content)
        wellFormed == /\ n >= 2
                      /\ content[1] = <<"{">>
                      /\ content[n] = <<"}">>
                      /\ \A i \in 2..(n - 1) : Len(content[i]) = 2
    IN  IF wellFormed
        THEN [ok |-> TRUE,
              data |-> [p \in {content[i][1] : i \in 2..(n - 1)} |->
                          content[CHOOSE i \in 2..(n - 1) :
                                      content[i][1] = p][2]]]
        ELSE [ok |-> FALSE, data |-> EmptyDict]

\* A load that takes every file for an empty snapshot.
LoadForgets(f) ==
    [data |-> EmptyDict, existed |-> f.exists, logged_error |-> FALSE,
     raised |-> "none"]

\* fp.read() inside json.load decodes the bytes as UTF-8, strictly: a chunk
\* of bytes that are not UTF-8 makes it raise UnicodeDecodeError, a
\* ValueError that is not a JSONDecodeError.
Undecodable(content) == \E i \in 1..Len(content) : content[i] = <<"0xFF">>

LoadKnownApps(f) ==
    IF ~f.exists
    THEN [data |-> EmptyDict, existed |-> FALSE, logged_error |-> FALSE,
          raised |-> "none"]
    ELSE IF Undecodable(f.content)
    THEN [data |-> EmptyDict, existed |-> TRUE, logged_error |-> FALSE,
          raised |-> "UnicodeDecodeError"]
    ELSE LET r == JsonLoad(f.content) IN
         IF r.ok
         THEN [data |-> r.data, existed |-> TRUE, logged_error |-> FALSE,
               raised |-> "none"]
         ELSE [data |-> EmptyDict, existed |-> TRUE, logged_error |-> TRUE,
               raised |-> "none"]

\* The target after _atomic_json_dump ran to its end: the temporary file,
\* holding every chunk, renamed over it.
AtomicJsonDump(target, data) == FileOf(Serialize(data))

\* A save that leaves the file as it is.
SaveSkipped(target, st) == target

SaveKnownApps(target, st) == AtomicJsonDump(target, st)

----------------------------------------------------------------------------
\* Validation and the new state

\* A filter that looks at the hashes only.
ValidateHashesOnly(apps) ==
    [p \in {q \in DOMAIN apps : apps[q].signing_cert_hashes # None} |->
        apps[p]]

ValidateAppMetadata(apps) ==
    [p \in {q \in DOMAIN apps : /\ apps[q].signing_cert_hashes # None
                                /\ apps[q].min_version_code # None} |->
        apps[p]]

\* The dict comprehension of main(): the persisted record of each package.
BuildState(current, now_iso, repo_ts) ==
    [p \in DOMAIN current |->
        [name |-> current[p].name,
         min_version_code |-> current[p].min_version_code,
         signing_cert_hashes |-> current[p].signing_cert_hashes,
         last_seen |-> now_iso,
         repo_timestamp |-> repo_ts]]

\* State files a run can start from: none, one a previous run wrote, and one
\* that does not decode.
PreviousState == BuildState(ValidateAppMetadata(AppsA), 0, Some(100))

InitialFiles ==
    { Absent,
      FileOf(Serialize(PreviousState)),
      FileOf(<< <<"{">>, <<"com.a", PreviousState["com.a"]>> >>) }

----------------------------------------------------------------------------
\* diff_apps

Range(seq) == {seq[i] : i \in 1..Len(seq)}

\* sorted(s) for a set s of package ids
Sorted(s) == SelectSeq(PkgOrder, LAMBDA p : p \in s)

\* set(meta.get("signing_cert_hashes", [])) of a record that has the list
HashSet(meta) == Range(meta.signing_cert_hashes[1])

VersionsDiffer(o, n) == o.min_version_code # n.min_version_code

\* A comparison of the hash lists as lists, order and repetitions included.
CertsDifferAsLists(o, n) == o.signing_cert_hashes # n.signing_cert_hashes

CertsDiffer(o, n) == HashSet(o) # HashSet(n)

DiffApps(old, new) ==
    LET common == Sorted(DOMAIN old \cap DOMAIN new) IN
    [added |-> Sorted(DOMAIN new \ DOMAIN old),
     removed |-> Sorted(DOMAIN old \ DOMAIN new),
     updated |-> SelectSeq(common, LAMBDA p : VersionsDiffer(old[p], new[p])),
     cert_changed |-> SelectSeq(common, LAMBDA p : CertsDiffer(old[p], new[p]))]

\* The lists before any cycle has run.
NoDiff == [added |-> << >>, removed |-> << >>, updated |-> << >>,
           cert_changed |-> << >>]

----------------------------------------------------------------------------
\* Variable groups

config == << once, max_failures, interval, retries, base_delay >>
files == << file, tmp, tmp_synced >>
fetchHistory == << gets, last_raised >>
signalHistory == << signal_at, ticks_since_signal, writes_since_signal >>
aside == << call, fsys, procs >>

\* The values of the variables a specification does not use.
NoCall == [fn |-> "none"]
NoFsys == [paths |-> << >>]
NoProcs == << >>

\* One second of a sleep goes by.
TickPasses ==
    ticks_since_signal' =
        IF shutdown THEN Min(ticks_since_signal + 1, TickCap)
                    ELSE ticks_since_signal

\* The state file is written once.
FileWritten ==
    writes_since_signal' =
        IF shutdown THEN writes_since_signal + 1 ELSE writes_since_signal

----------------------------------------------------------------------------
\* fetch_apps

\* The statement after the for loop, reached when the loop body never ran.
FallThrough == Raise("RuntimeError")

\* The call: delay = base_delay, and the first iteration of the loop if any.
FetchEnter ==
    /\ pc = "fetch_call"
    /\ delay' = base_delay
    /\ gets' = 0
    /\ last_raised' = "none"
    /\ IF retries >= 1
       THEN /\ attempt' = 1
            /\ fetched' = NotFetched
            /\ pc' = "get"
       ELSE /\ attempt' = attempt
            /\ fetched' = FallThrough
            /\ pc' = "fetched"
    /\ UNCHANGED << config, poll, consecutive_failures, state, first_run,
                    shutdown, pending, exit_status, sleepLeft, files,
                    errors_logged, exit_reason, last_good, exit_saves,
                    signalHistory, old_file, outcomes, reported, aside >>

\* A retry loop that is one off: the re-raise comes an attempt too late.
LastAttemptOffByOne(n, max) == n = max + 1

\* What the except clause does with a caught exception on this attempt:
\* re-raise on the last attempt, else sleep before the next one.
LastAttempt(n, max) == n = max

\* One iteration of the loop up to its return, its raise or its sleep.
FetchAttempt ==
    /\ pc = "get"
    /\ \E resp \in Responses, jitter \in RetryJitter :
         LET exc == Raised(resp) IN
         /\ gets' = gets + 1
         /\ last_raised' = exc
         /\ IF exc = "none"
            THEN /\ fetched' = Returned(resp.data)
                 /\ pc' = "fetched"
                 /\ sleepLeft' = sleepLeft
            ELSE IF ~CaughtByFetch(exc) \/ LastAttempt(attempt, retries)
            THEN /\ fetched' = Raise(exc)
                 /\ pc' = "fetched"
                 /\ sleepLeft' = sleepLeft
            ELSE /\ fetched' = fetched
                 /\ pc' = "retry_sleep"
                 /\ sleepLeft' = RetrySleepTicks(delay, jitter)
    /\ UNCHANGED << config, poll, consecutive_failures, state, first_run,
                    shutdown, pending, exit_status, attempt, delay, files,
                    errors_logged, exit_reason, last_good, exit_saves,
                    signalHistory, old_file, outcomes, reported, aside >>

\* time.sleep(sleep_time) between two attempts: it runs its full length.
RetrySleepTick ==
    /\ pc = "retry_sleep"
    /\ sleepLeft > 0
    /\ sleepLeft' = sleepLeft - 1
    /\ TickPasses
    /\ UNCHANGED << config, pc, poll, consecutive_failures, state, first_run,
                    shutdown, pending, exit_status, attempt, delay, fetched,
                    files, errors_logged, fetchHistory, exit_reason,
                    last_good, exit_saves, signal_at, writes_since_signal,
                    old_file, outcomes, reported, aside >>

\* delay *= 2 and the next iteration.
RetrySleepDone ==
    /\ pc = "retry_sleep"
    /\ sleepLeft = 0
    /\ delay' = delay * 2
    /\ attempt' = attempt + 1
    /\ pc' = "get"
    /\ UNCHANGED << config, poll, consecutive_failures, state, first_run,
                    shutdown, pending, exit_status, fetched, sleepLeft, files,
                    errors_logged, fetchHistory, exit_reason, last_good,
                    exit_saves, signalHistory, old_file, outcomes, reported, aside >>

----------------------------------------------------------------------------
\* main

\* The exit status of the interpreter: 0 when main() returns, 1 when
\* SystemExit(1) or any other exception leaves it.
ExitStatusOf(exc) == IF exc = "none" THEN 0 ELSE 1

\* The top of the while loop: leave it on shutdown, else start poll + 1.
\* A loop condition that never sees the flag.
LoopIgnoresShutdown(flag) == FALSE

\* while not shutdown_handler.shutdown: the flag as the loop condition
\* reads it.
LoopSeesShutdown(flag) == flag

LoopCheck ==
    /\ pc = "loop_top"
    /\ IF LoopSeesShutdown(shutdown)
       THEN /\ pc' = "finally"
            /\ exit_reason' = "shutdown"
            /\ poll' = poll
       ELSE /\ poll < MaxPolls
            /\ poll' = poll + 1
            /\ pc' = "fetch_call"
            /\ exit_reason' = exit_reason
    /\ UNCHANGED << config, consecutive_failures, state, first_run, shutdown,
                    pending, exit_status, attempt, delay, fetched, sleepLeft,
                    files, errors_logged, fetchHistory, last_good, exit_saves,
                    signalHistory, old_file, outcomes, reported, aside >>

\* A ceiling that is one off: the exit comes a failure too late.
CeilingExceeded(failures, ceiling) == failures > ceiling

\* Whether the failure counter has reached the ceiling.
CeilingReached(failures, ceiling) == failures >= ceiling

\* A failed cycle that drops the known state.
StateLostOnFailure(st) == EmptyDict

\* The state main() keeps after a cycle whose fetch failed.
StateAfterFailure(st) == st

\* The except branch of the cycle: count the failure, exit at the ceiling or
\* in --once mode, else start the escalated sleep.
FetchFailed ==
    /\ pc = "fetched"
    /\ fetched.kind = "raise"
    /\ IsInstance(fetched.exc, "Exception")
    /\ outcomes' = Append(outcomes, "fail")
    /\ consecutive_failures' = consecutive_failures + 1
    /\ state' = StateAfterFailure(state)
    /\ IF CeilingReached(consecutive_failures + 1, max_failures)
       THEN /\ errors_logged' = errors_logged \cup {"fetch_failed", "max_failures"}
            /\ pending' = "SystemExit"
            /\ exit_reason' = "ceiling"
            /\ pc' = "finally"
            /\ sleepLeft' = sleepLeft
       ELSE IF once
       THEN /\ errors_logged' = errors_logged \cup {"fetch_failed"}
            /\ pending' = "SystemExit"
            /\ exit_reason' = "once_fail"
            /\ pc' = "finally"
            /\ sleepLeft' = sleepLeft
       ELSE /\ errors_logged' = errors_logged \cup {"fetch_failed"}
            /\ pending' = pending
            /\ exit_reason' = exit_reason
            /\ pc' = "backoff_sleep"
            /\ \E jitter \in BackoffJitter, elapsed \in 0..MaxElapsed :
                 sleepLeft' = BackoffSleepTicks(interval,
                                  consecutive_failures + 1, jitter, elapsed)
    /\ UNCHANGED << config, poll, first_run, shutdown, exit_status, attempt,
                    delay, fetched, files, fetchHistory, last_good,
                    exit_saves, signalHistory, old_file, reported, aside >>

\* time.sleep(remaining_sleep) after a failed cycle: it runs its full length.
BackoffTick ==
    /\ pc = "backoff_sleep"
    /\ sleepLeft > 0
    /\ sleepLeft' = sleepLeft - 1
    /\ TickPasses
    /\ UNCHANGED << config, pc, poll, consecutive_failures, state, first_run,
                    shutdown, pending, exit_status, attempt, delay, fetched,
                    files, errors_logged, fetchHistory, exit_reason,
                    last_good, exit_saves, signal_at, writes_since_signal,
                    old_file, outcomes, reported, aside >>

\* continue
BackoffDone ==
    /\ pc = "backoff_sleep"
    /\ sleepLeft = 0
    /\ pc' = "loop_top"
    /\ UNCHANGED << config, poll, consecutive_failures, state, first_run,
                    shutdown, pending, exit_status, attempt, delay, fetched,
                    sleepLeft, files, errors_logged, fetchHistory,
                    exit_reason, last_good, exit_saves, signalHistory,
                    old_file, outcomes, reported, aside >>

\* An update in place: the entries of the old state that the feed no longer
\* has stay in the new one.
MergeState(old, built) ==
    [p \in DOMAIN old \cup DOMAIN built |->
        IF p \in DOMAIN built THEN built[p] ELSE old[p]]

\* A diff against nothing: every package of the feed is new each cycle.
EmptyBaseline(st) == EmptyDict

\* diff_apps(state, current): the old side of the diff is the state in
\* memory.
DiffBaseline(st) == st

\* state = {...}: the name is bound to the new dict, the old one is dropped.
ReplaceState(old, built) == built

\* The else branch of the cycle: reset the counter, validate, diff, notify,
\* replace the state and save it; then break in --once mode, or compute the
\* sleep.  A value of "apps" that is no dict makes validate_app_metadata
\* raise AttributeError, which leaves the loop.
FetchSucceeded ==
    /\ pc = "fetched"
    /\ fetched.kind = "return"
    /\ outcomes' = Append(outcomes, "ok")
    /\ consecutive_failures' = 0
    /\ IF ~fetched.body.is_mapping
       THEN /\ pending' = "AttributeError"
            /\ exit_reason' = "exception"
            /\ pc' = "finally"
            /\ UNCHANGED << state, first_run, file, last_good, sleepLeft,
                            writes_since_signal, reported >>
       ELSE LET current == ValidateAppMetadata(fetched.body.apps)
                new == ReplaceState(state,
                          BuildState(current, poll, fetched.body.timestamp))
            IN  /\ reported' = DiffApps(DiffBaseline(state), current)
                /\ state' = new
                /\ file' = SaveKnownApps(file, new)
                /\ FileWritten
                /\ first_run' = FALSE
                /\ last_good' = new
                /\ pending' = pending
                /\ IF once
                   THEN /\ pc' = "finally"
                        /\ exit_reason' = "once_ok"
                        /\ sleepLeft' = sleepLeft
                   ELSE /\ pc' = "sleep_check"
                        /\ exit_reason' = exit_reason
                        /\ \E elapsed \in 0..MaxElapsed :
                             sleepLeft' = SleepFor(interval, elapsed)
    /\ UNCHANGED << config, poll, shutdown, exit_status, attempt, delay,
                    fetched, tmp, tmp_synced, errors_logged, fetchHistory,
                    exit_saves, signal_at, ticks_since_signal, old_file, aside >>

\* A sleep loop that never looks at the flag.
SleepIgnoresShutdown(flag) == FALSE

\* Whether the sleep loop looks at the shutdown flag before each chunk.
SleepSeesShutdown(flag) == flag

\* The head of the sleep loop: done when the time is up or on shutdown.
SleepCheck ==
    /\ pc = "sleep_check"
    /\ pc' = IF sleepLeft = 0 \/ SleepSeesShutdown(shutdown)
             THEN "loop_top" ELSE "sleep_chunk"
    /\ UNCHANGED << config, poll, consecutive_failures, state, first_run,
                    shutdown, pending, exit_status, attempt, delay, fetched,
                    sleepLeft, files, errors_logged, fetchHistory,
                    exit_reason, last_good, exit_saves, signalHistory,
                    old_file, outcomes, reported, aside >>

\* time.sleep(min(1.0, remaining))
SleepChunk ==
    /\ pc = "sleep_chunk"
    /\ sleepLeft' = sleepLeft - Min(ChunkSeconds, sleepLeft)
    /\ TickPasses
    /\ pc' = "sleep_check"
    /\ UNCHANGED << config, poll, consecutive_failures, state, first_run,
                    shutdown, pending, exit_status, attempt, delay, fetched,
                    files, errors_logged, fetchHistory, exit_reason,
                    last_good, exit_saves, signal_at, writes_since_signal,
                    old_file, outcomes, reported, aside >>

\* A finally block that saves an empty state.
EmptyStateToSave(st) == EmptyDict

\* The state the finally block saves.
StateToSave(st) == st

\* The finally block: save the state, close the client; the process exits.
Finally ==
    /\ pc = "finally"
    /\ file' = SaveKnownApps(file, StateToSave(state))
    /\ FileWritten
    /\ exit_saves' = exit_saves + 1
    /\ exit_status' = ExitStatusOf(pending)
    /\ pc' = "terminated"
    /\ UNCHANGED << config, poll, consecutive_failures, state, first_run,
                    shutdown, pending, attempt, delay, fetched, sleepLeft,
                    tmp, tmp_synced, errors_logged, fetchHistory,
                    exit_reason, last_good, signal_at, ticks_since_signal,
                    old_file, outcomes, reported, aside >>

\* GracefulShutdown._signal_handler: SIGTERM or SIGINT arrives.
Signal ==
    /\ pc \notin {"terminated"}
    /\ ~shutdown
    /\ shutdown' = TRUE
    /\ signal_at' = pc
    /\ UNCHANGED << config, pc, poll, consecutive_failures, state, first_run,
                    pending, exit_status, attempt, delay, fetched, sleepLeft,
                    files, errors_logged, fetchHistory, exit_reason,
                    last_good, exit_saves, ticks_since_signal,
                    writes_since_signal, old_file, outcomes, reported, aside >>

----------------------------------------------------------------------------
\* The watcher

\* main() up to the while loop: the configuration is parsed, the state file
\* loaded, the signal handlers installed.
Init ==
    /\ once \in BOOLEAN
    /\ max_failures \in 1..MaxFailures
    /\ interval \in 1..MaxInterval
    /\ retries = DefaultRetries
    /\ base_delay = DefaultBaseDelay
    /\ file \in InitialFiles
    /\ tmp = Absent
    /\ tmp_synced = FALSE
    /\ state = LoadKnownApps(file).data
    /\ first_run = (state = EmptyDict \/ ~LoadKnownApps(file).existed)
    /\ errors_logged = IF LoadKnownApps(file).logged_error
                       THEN {"state_corrupted"} ELSE {}
    /\ pc = "loop_top"
    /\ poll = 0
    /\ consecutive_failures = 0
    /\ shutdown = FALSE
    /\ pending = "none"
    /\ exit_status = -1
    /\ attempt = 0
    /\ delay = 0
    /\ fetched = NotFetched
    /\ sleepLeft = 0
    /\ gets = 0
    /\ last_raised = "none"
    /\ exit_reason = "none"
    /\ last_good = state
    /\ exit_saves = 0
    /\ signal_at = "none"
    /\ ticks_since_signal = 0
    /\ writes_since_signal = 0
    /\ old_file = file
    /\ outcomes = << >>
    /\ reported = NoDiff
    /\ call = NoCall
    /\ fsys = NoFsys
    /\ procs = NoProcs

Next ==
    \/ LoopCheck
    \/ FetchEnter
    \/ FetchAttempt
    \/ RetrySleepTick
    \/ RetrySleepDone
    \/ FetchFailed
    \/ BackoffTick
    \/ BackoffDone
    \/ FetchSucceeded
    \/ SleepCheck
    \/ SleepChunk
    \/ Finally
    \/ Signal

Spec == Init /\ [][Next]_vars

----------------------------------------------------------------------------
\* fetch_apps on its own, for every number of retries

FetchInit ==
    /\ retries \in 0..MaxRetries
    /\ base_delay = DefaultBaseDelay
    /\ pc = "fetch_call"
    /\ once = FALSE
    /\ max_failures = 1
    /\ interval = 1
    /\ file = Absent
    /\ tmp = Absent
    /\ tmp_synced = FALSE
    /\ state = EmptyDict
    /\ first_run = TRUE
    /\ errors_logged = {}
    /\ poll = 1
    /\ consecutive_failures = 0
    /\ shutdown = FALSE
    /\ pending = "none"
    /\ exit_status = -1
    /\ attempt = 0
    /\ delay = 0
    /\ fetched = NotFetched
    /\ sleepLeft = 0
    /\ gets = 0
    /\ last_raised = "none"
    /\ exit_reason = "none"
    /\ last_good = EmptyDict
    /\ exit_saves = 0
    /\ signal_at = "none"
    /\ ticks_since_signal = 0
    /\ writes_since_signal = 0
    /\ old_file = Absent
    /\ outcomes = << >>
    /\ reported = NoDiff
    /\ call = NoCall
    /\ fsys = NoFsys
    /\ procs = NoProcs

FetchNext ==
    \/ FetchEnter
    \/ FetchAttempt
    \/ RetrySleepTick
    \/ RetrySleepDone

FetchSpec == FetchInit /\ [][FetchNext]_vars

----------------------------------------------------------------------------
\* _atomic_json_dump, statement by statement, with a crash at any point

\* A dump that writes the state file in place.
DumpInPlace == "target"

\* The path the chunks are written to: the sibling f"{path}.tmp".
DumpPath == "tmp"

\* States save_known_apps can be called with.
Snapshots ==
    { EmptyDict,
      PreviousState,
      BuildState(ValidateAppMetadata(AppsB), 1, None),
      BuildState(ValidateAppMetadata(AppsC), 2, Some(200)) }

\* open(tmp, "w") and the exclusive lock: the file is created or truncated.
SaveOpen ==
    /\ pc = "save_open"
    /\ IF DumpPath = "tmp"
       THEN tmp' = FileOf(<< >>) /\ file' = file
       ELSE file' = FileOf(<< >>) /\ tmp' = tmp
    /\ tmp_synced' = FALSE
    /\ pc' = "save_write"
    /\ UNCHANGED << config, poll, consecutive_failures, state, first_run,
                    shutdown, pending, exit_status, attempt, delay, fetched,
                    sleepLeft, errors_logged, fetchHistory, exit_reason,
                    last_good, exit_saves, signalHistory, old_file, outcomes, reported, aside >>

\* The file the chunks go to.
Dumped == IF DumpPath = "tmp" THEN tmp ELSE file

\* json.dump writes the next chunk.
SaveWrite ==
    /\ pc = "save_write"
    /\ Len(Dumped.content) < Len(Serialize(state))
    /\ LET more == FileOf(Append(Dumped.content,
                          Serialize(state)[Len(Dumped.content) + 1]))
       IN  IF DumpPath = "tmp"
           THEN tmp' = more /\ file' = file
           ELSE file' = more /\ tmp' = tmp
    /\ UNCHANGED << config, pc, poll, consecutive_failures, state, first_run,
                    shutdown, pending, exit_status, attempt, delay, fetched,
                    sleepLeft, tmp_synced, errors_logged, fetchHistory,
                    exit_reason, last_good, exit_saves, signalHistory,
                    old_file, outcomes, reported, aside >>

\* fp.flush(), os.fsync(), the unlock and the close, once json.dump is done.
SaveSync ==
    /\ pc = "save_write"
    /\ Len(Dumped.content) = Len(Serialize(state))
    /\ tmp_synced' = TRUE
    /\ pc' = "save_replace"
    /\ UNCHANGED << config, poll, consecutive_failures, state, first_run,
                    shutdown, pending, exit_status, attempt, delay, fetched,
                    sleepLeft, file, tmp, errors_logged, fetchHistory,
                    exit_reason, last_good, exit_saves, signalHistory,
                    old_file, outcomes, reported, aside >>

\* Path(tmp).replace(path): the rename.
SaveReplace ==
    /\ pc = "save_replace"
    /\ IF DumpPath = "tmp"
       THEN file' = tmp /\ tmp' = Absent
       ELSE file' = file /\ tmp' = tmp
    /\ pc' = "saved"
    /\ UNCHANGED << config, poll, consecutive_failures, state, first_run,
                    shutdown, pending, exit_status, attempt, delay, fetched,
                    sleepLeft, tmp_synced, errors_logged, fetchHistory,
                    exit_reason, last_good, exit_saves, signalHistory,
                    old_file, outcomes, reported, aside >>

\* The process dies between two statements; the files stay as they are.
Crash ==
    /\ pc \in {"save_open", "save_write", "save_replace"}
    /\ pc' = "crashed"
    /\ UNCHANGED << config, poll, consecutive_failures, state, first_run,
                    shutdown, pending, exit_status, attempt, delay, fetched,
                    sleepLeft, files, errors_logged, fetchHistory,
                    exit_reason, last_good, exit_saves, signalHistory,
                    old_file, outcomes, reported, aside >>

SaveInit ==
    /\ pc = "save_open"
    /\ file \in InitialFiles \cup {FileOf(Serialize(s)) : s \in Snapshots}
    /\ old_file = file
    /\ state \in Snapshots
    \* no temporary file, or one an earlier crash left behind
    /\ tmp \in {Absent, FileOf(<< <<"{">> >>)}
    /\ tmp_synced = FALSE
    /\ retries = DefaultRetries
    /\ base_delay = DefaultBaseDelay
    /\ once = FALSE
    /\ max_failures = 1
    /\ interval = 1
    /\ first_run = FALSE
    /\ errors_logged = {}
    /\ poll = 1
    /\ consecutive_failures = 0
    /\ shutdown = FALSE
    /\ pending = "none"
    /\ exit_status = -1
    /\ attempt = 0
    /\ delay = 0
    /\ fetched = NotFetched
    /\ sleepLeft = 0
    /\ gets = 0
    /\ last_raised = "none"
    /\ exit_reason = "none"
    /\ last_good = state
    /\ exit_saves = 0
    /\ signal_at = "none"
    /\ ticks_since_signal = 0
    /\ writes_since_signal = 0
    /\ outcomes = << >>
    /\ reported = NoDiff
    /\ call = NoCall
    /\ fsys = NoFsys
    /\ procs = NoProcs

SaveNext ==
    \/ SaveOpen
    \/ SaveWrite
    \/ SaveSync
    \/ SaveReplace
    \/ Crash

SaveSpec == SaveInit /\ [][SaveNext]_vars

----------------------------------------------------------------------------
\* Functions applied on their own.  The variables of the watch loop stand
\* still while one function is applied to arguments drawn from a small set.

mainVars == << config, pc, poll, consecutive_failures, state, first_run,
               shutdown, pending, exit_status, attempt, delay, fetched,
               sleepLeft, files, errors_logged, fetchHistory, exit_reason,
               last_good, exit_saves, signalHistory, old_file, outcomes,
               reported >>

Idle ==
    /\ once = FALSE
    /\ max_failures = 1
    /\ interval = 1
    /\ retries = DefaultRetries
    /\ base_delay = DefaultBaseDelay
    /\ pc = "call"
    /\ poll = 0
    /\ consecutive_failures = 0
    /\ state = EmptyDict
    /\ first_run = FALSE
    /\ shutdown = FALSE
    /\ pending = "none"
    /\ exit_status = -1
    /\ attempt = 0
    /\ delay = 0
    /\ fetched = NotFetched
    /\ sleepLeft = 0
    /\ file = Absent
    /\ tmp = Absent
    /\ tmp_synced = FALSE
    /\ errors_logged = {}
    /\ gets = 0
    /\ last_raised = "none"
    /\ exit_reason = "none"
    /\ last_good = EmptyDict
    /\ exit_saves = 0
    /\ signal_at = "none"
    /\ ticks_since_signal = 0
    /\ writes_since_signal = 0
    /\ old_file = Absent
    /\ outcomes = << >>
    /\ reported = NoDiff

\* The records one package can have in a snapshot: a version, the same
\* hashes in another order under another version, and other hashes.
Entries ==
    { Meta("X", Some(1), Some(<<"h1", "h2">>)),
      Meta("X", Some(2), Some(<<"h2", "h1">>)),
      Meta("X", Some(1), Some(<<"h3">>)) }

\* Every snapshot over the packages of PkgOrder with those records.
AllSnapshots == UNION {[d -> Entries] : d \in SUBSET Range(PkgOrder)}

DiffInit ==
    /\ Idle
    /\ fsys = NoFsys
    /\ procs = NoProcs
    /\ \E old \in AllSnapshots, new \in AllSnapshots :
          call = [fn |-> "diff_apps", old |-> old, new |-> new,
                  done |-> FALSE, result |-> NoDiff]

DiffCall ==
    /\ call.fn = "diff_apps"
    /\ ~call.done
    /\ call' = [call EXCEPT !.done = TRUE,
                            !.result = DiffApps(call.old, call.new)]
    /\ UNCHANGED << mainVars, fsys, procs >>

DiffNext == DiffCall

DiffSpec == DiffInit /\ [][DiffNext]_vars

----------------------------------------------------------------------------
\* save_known_apps, then load_known_apps in the next run

\* The run saves again: the next cycle's state, or the state on the way out.
SaveAgain ==
    /\ pc = "saved"
    /\ \E s \in Snapshots :
          /\ state' = s
          /\ last_good' = s
    /\ old_file' = file
    /\ pc' = "save_open"
    /\ UNCHANGED << config, poll, consecutive_failures, first_run, shutdown,
                    pending, exit_status, attempt, delay, fetched, sleepLeft,
                    files, errors_logged, fetchHistory, exit_reason,
                    exit_saves, signalHistory, outcomes, reported, aside >>

\* The process has ended after its last save; a new one starts and loads
\* the state file.
Restart ==
    /\ pc = "saved"
    /\ LET loaded == LoadKnownApps(file) IN
          /\ call' = [fn |-> "load_known_apps", result |-> loaded]
          /\ state' = loaded.data
          /\ first_run' = (loaded.data = EmptyDict \/ ~loaded.existed)
          /\ errors_logged' = IF loaded.logged_error
                              THEN {"state_corrupted"} ELSE {}
    /\ pc' = "loaded"
    /\ UNCHANGED << config, poll, consecutive_failures, shutdown, pending,
                    exit_status, attempt, delay, fetched, sleepLeft, files,
                    fetchHistory, exit_reason, last_good, exit_saves,
                    signalHistory, old_file, outcomes, reported, fsys,
                    procs >>

StoreNext ==
    \/ SaveOpen
    \/ SaveWrite
    \/ SaveSync
    \/ SaveReplace
    \/ SaveAgain
    \/ Restart

StoreSpec == SaveInit /\ [][StoreNext]_vars

----------------------------------------------------------------------------
\* The start of main(): load_known_apps on the state file it finds

\* The chunk sequences that are a beginning of a serialization.
Prefixes(content) == {SubSeq(content, 1, n) : n \in 0..Len(content)}

\* State files a run can find: none, whole ones, ones cut short at any
\* chunk, and each of these followed by bytes that are not UTF-8.
FoundFiles ==
    LET whole == {Serialize(s) : s \in Snapshots}
        cut == UNION {Prefixes(c) : c \in whole}
    IN  {Absent} \cup {FileOf(c) : c \in cut}
                 \cup {FileOf(Append(c, <<"0xFF">>)) : c \in cut}

LoadInit ==
    /\ once \in BOOLEAN
    /\ max_failures \in 1..MaxFailures
    /\ interval = 1
    /\ retries = DefaultRetries
    /\ base_delay = DefaultBaseDelay
    /\ pc = "start"
    /\ file \in FoundFiles
    /\ old_file = file
    /\ tmp = Absent
    /\ tmp_synced = FALSE
    /\ state = EmptyDict
    /\ first_run = FALSE
    /\ errors_logged = {}
    /\ poll = 0
    /\ consecutive_failures = 0
    /\ shutdown = FALSE
    /\ pending = "none"
    /\ exit_status = -1
    /\ attempt = 0
    /\ delay = 0
    /\ fetched = NotFetched
    /\ sleepLeft = 0
    /\ gets = 0
    /\ last_raised = "none"
    /\ exit_reason = "none"
    /\ last_good = EmptyDict
    /\ exit_saves = 0
    /\ signal_at = "none"
    /\ ticks_since_signal = 0
    /\ writes_since_signal = 0
    /\ outcomes = << >>
    /\ reported = NoDiff
    /\ call = NoCall
    /\ fsys = NoFsys
    /\ procs = NoProcs

\* Lines 259-260.  The call is outside the try statement of main(): an
\* exception load_known_apps lets through ends the process with a traceback
\* and status 1, before the watch loop and without the save on exit.
Startup ==
    /\ pc = "start"
    /\ LET loaded == LoadKnownApps(file) IN
          /\ call' = [fn |-> "load_known_apps", result |-> loaded]
          /\ IF loaded.raised # "none"
             THEN /\ pc' = "terminated"
                  /\ exit_status' = 1
                  /\ exit_reason' = "load_raised"
                  /\ last_raised' = loaded.raised
                  /\ UNCHANGED << state, first_run, errors_logged, last_good >>
             ELSE /\ pc' = "loop_top"
                  /\ state' = loaded.data
                  /\ last_good' = loaded.data
                  /\ first_run' = (loaded.data = EmptyDict \/ ~loaded.existed)
                  /\ errors_logged' = IF loaded.logged_error
                                      THEN {"state_corrupted"} ELSE {}
                  /\ UNCHANGED << exit_status, exit_reason, last_raised >>
    /\ UNCHANGED << config, poll, consecutive_failures, shutdown, pending,
                    attempt, delay, fetched, sleepLeft, files, gets,
                    exit_saves, signalHistory, old_file, outcomes, reported,
                    fsys, procs >>

LoadNext == Startup

LoadSpec == LoadInit /\ [][LoadNext]_vars

----------------------------------------------------------------------------
\* validate_app_metadata applied on its own

\* The entries the "apps" mapping of a response can hold for one package:
\* both fields set, both set to values that are falsy but not None, and one
\* or both of them null or absent (.get() returns None for either).
RawEntries ==
    { Meta("X", Some(1), Some(<<"h1">>)),
      Meta("X", Some(0), Some(<< >>)),
      Meta("X", None, Some(<<"h1">>)),
      Meta("X", Some(1), None),
      Meta("X", None, None) }

RawApps == UNION {[d -> RawEntries] : d \in SUBSET Range(PkgOrder)}

ValidateInit ==
    /\ Idle
    /\ fsys = NoFsys
    /\ procs = NoProcs
    /\ \E apps \in RawApps :
          call = [fn |-> "validate_app_metadata", apps |-> apps,
                  done |-> FALSE, result |-> EmptyDict]

ValidateCall ==
    /\ call.fn = "validate_app_metadata"
    /\ ~call.done
    /\ call' = [call EXCEPT !.done = TRUE,
                            !.result = ValidateAppMetadata(call.apps)]
    /\ UNCHANGED << mainVars, fsys, procs >>

ValidateNext == ValidateCall

ValidateSpec == ValidateInit /\ [][ValidateNext]_vars

----------------------------------------------------------------------------
\* The backoff of a failed cycle, lines 298-307, computed on its own

BackoffInit ==
    /\ Idle
    /\ fsys = NoFsys
    /\ procs = NoProcs
    /\ \E ivl \in 1..MaxInterval, k \in 1..MaxStreak, j \in BackoffJitter,
          e \in 0..MaxElapsed :
          call = [fn |-> "backoff", interval |-> ivl, failures |-> k,
                  jitter |-> j, elapsed |-> e, done |-> FALSE,
                  backoff_multiplier |-> 0, sleep_time |-> 0,
                  remaining_sleep |-> 0, ticks |-> 0]

BackoffCall ==
    /\ call.fn = "backoff"
    /\ ~call.done
    /\ call' = [call EXCEPT
          !.done = TRUE,
          !.backoff_multiplier = BackoffMultiplier(call.failures),
          !.sleep_time = BackoffSleepTime(call.interval, call.failures,
                                          call.jitter),
          !.remaining_sleep = RemainingSleep(call.interval, call.failures,
                                             call.jitter, call.elapsed),
          !.ticks = BackoffSleepTicks(call.interval, call.failures,
                                      call.jitter, call.elapsed)]
    /\ UNCHANGED << mainVars, fsys, procs >>

BackoffNext == BackoffCall

BackoffSpec == BackoffInit /\ [][BackoffNext]_vars

----------------------------------------------------------------------------
\* The report of a cycle: the line of lines 318-321, then notify()

\* The choices of --log-level, by rising severity.
LevelOrder == << "DEBUG", "INFO", "WARNING", "ERROR" >>

LevelNo(level) == CHOOSE i \in 1..Len(LevelOrder) : LevelOrder[i] = level

\* One call of _emit: the severity, the tag of the message and the package.
Line(level, tag, pkg) == [level |-> level, tag |-> tag, pkg |-> pkg]

\* One loop of notify(): a line for each package of a list, in its order.
LinesFor(level, tag, pkgs) ==
    [i \in 1..Len(pkgs) |-> Line(level, tag, pkgs[i])]

\* The loops of notify() with the warnings ahead of the rest.
NotifyWarningsFirst(d) ==
    LinesFor("WARNING", "REMOVED", d.removed)
        \o LinesFor("WARNING", "CERT", d.cert_changed)
        \o LinesFor("INFO", "NEW", d.added)
        \o LinesFor("INFO", "UPDATED", d.updated)

NotifyLines(d) ==
    LinesFor("INFO", "NEW", d.added)
        \o LinesFor("WARNING", "REMOVED", d.removed)
        \o LinesFor("INFO", "UPDATED", d.updated)
        \o LinesFor("WARNING", "CERT", d.cert_changed)

\* any((added, removed, updated, cert_changed))
AnyChanges(d) ==
    \/ d.added # << >>
    \/ d.removed # << >>
    \/ d.updated # << >>
    \/ d.cert_changed # << >>

ReportLines(d) ==
    << Line("INFO", IF AnyChanges(d) THEN "Changes detected" ELSE "No changes",
            "") >>
        \o NotifyLines(d)

\* root.setLevel(level): the root logger drops the records below its level.
Logged(log_level, line) == LevelNo(line.level) >= LevelNo(log_level)

\* The results diff_apps can have.
DiffResults == {DiffApps(old, new) : old \in AllSnapshots, new \in AllSnapshots}

NotifyInit ==
    /\ Idle
    /\ fsys = NoFsys
    /\ procs = NoProcs
    /\ \E d \in DiffResults, quiet \in BOOLEAN, level \in Range(LevelOrder) :
          call = [fn |-> "notify", diff |-> d, quiet |-> quiet,
                  log_level |-> level, todo |-> ReportLines(d),
                  emitted |-> << >>, console |-> << >>, log |-> << >>]

\* _emit(msg, level, quiet) for the next line.
Emit ==
    /\ call.fn = "notify"
    /\ call.todo # << >>
    /\ LET line == Head(call.todo) IN
       call' = [call EXCEPT
          !.todo = Tail(call.todo),
          !.emitted = Append(call.emitted, line),
          !.console = IF call.quiet THEN call.console
                      ELSE Append(call.console, line),
          !.log = IF Logged(call.log_level, line) THEN Append(call.log, line)
                  ELSE call.log]
    /\ UNCHANGED << mainVars, fsys, procs >>

NotifyNext == Emit

NotifySpec == NotifyInit /\ [][NotifyNext]_vars

----------------------------------------------------------------------------
\* Two instances in _atomic_json_dump on one path, statement by statement,
\* on a POSIX file system: a directory of two names, inodes, one file
\* descriptor with its offset per instance, flock on the inode.

Instances == {"A", "B"}

\* No inode: the name is not in the directory, the descriptor is not open.
NoInode == "none"

\* The inode open(tmp, "w") of an instance creates when the name is free,
\* and the inode of a state file present at the start.
CreatedBy(i) == i
Existing == "S"
Inodes == Instances \cup {Existing}

\* write() at an offset: over the chunk there, at the end, or past the end
\* after a hole of zeros.
WriteAt(content, pos, chunk) ==
    IF pos < Len(content)
    THEN [content EXCEPT ![pos + 1] = chunk]
    ELSE content \o [k \in 1..(pos - Len(content)) |-> <<"0x00">>]
                 \o << chunk >>

Save2Init ==
    /\ Idle
    /\ call = NoCall
    /\ \E present \in BOOLEAN :
          fsys = [paths |-> [tmp |-> NoInode,
                             target |-> IF present THEN Existing ELSE NoInode],
                  inodes |-> [n \in Inodes |->
                                IF present /\ n = Existing
                                THEN Serialize(PreviousState) ELSE << >>],
                  lock |-> [n \in Inodes |-> NoInode]]
    /\ \E da \in Snapshots, db \in Snapshots :
          procs = [i \in Instances |->
                     [pc |-> "open", data |-> IF i = "A" THEN da ELSE db,
                      fd |-> NoInode, pos |-> 0, raised |-> "none"]]

\* open(tmp, "w"): O_CREAT | O_TRUNC.  The name is created with a new inode,
\* or the inode it has is cut to length 0, whoever holds a lock on it.
Open(i) ==
    /\ procs[i].pc = "open"
    /\ LET inode == IF fsys.paths.tmp = NoInode THEN CreatedBy(i)
                    ELSE fsys.paths.tmp
       IN  /\ fsys' = [fsys EXCEPT !.paths.tmp = inode,
                                   !.inodes[inode] = << >>]
           /\ procs' = [procs EXCEPT ![i].pc = "lock", ![i].fd = inode,
                                     ![i].pos = 0]
    /\ UNCHANGED << mainVars, call >>

\* flock(LOCK_EX) on the open file: waits while the other instance holds a
\* lock on the same inode.
LockExclusive(i) ==
    /\ procs[i].pc = "lock"
    /\ fsys.lock[procs[i].fd] = NoInode
    /\ fsys' = [fsys EXCEPT !.lock[procs[i].fd] = i]
    /\ procs' = [procs EXCEPT ![i].pc = "dump"]
    /\ UNCHANGED << mainVars, call >>

\* json.dump: the next chunk goes to the descriptor's offset.
Dump(i) ==
    /\ procs[i].pc = "dump"
    /\ procs[i].pos < Len(Serialize(procs[i].data))
    /\ fsys' = [fsys EXCEPT !.inodes[procs[i].fd] =
                   WriteAt(@, procs[i].pos,
                           Serialize(procs[i].data)[procs[i].pos + 1])]
    /\ procs' = [procs EXCEPT ![i].pos = @ + 1]
    /\ UNCHANGED << mainVars, call >>

\* flush, fsync, _unlock and the close at the end of the with statement.
SyncUnlock(i) ==
    /\ procs[i].pc = "dump"
    /\ procs[i].pos = Len(Serialize(procs[i].data))
    /\ fsys' = [fsys EXCEPT !.lock[procs[i].fd] = NoInode]
    /\ procs' = [procs EXCEPT ![i].pc = "replace", ![i].fd = NoInode]
    /\ UNCHANGED << mainVars, call >>

\* Path(tmp).replace(path): rename(2).  FileNotFoundError when the name tmp
\* is no longer in the directory.
Replace(i) ==
    /\ procs[i].pc = "replace"
    /\ IF fsys.paths.tmp = NoInode
       THEN /\ procs' = [procs EXCEPT ![i].pc = "raised",
                                      ![i].raised = "FileNotFoundError"]
            /\ fsys' = fsys
       ELSE /\ procs' = [procs EXCEPT ![i].pc = "saved"]
            /\ fsys' = [fsys EXCEPT !.paths.target = fsys.paths.tmp,
                                    !.paths.tmp = NoInode]
    /\ UNCHANGED << mainVars, call >>

Save2Next ==
    \E i \in Instances :
        \/ Open(i)
        \/ LockExclusive(i)
        \/ Dump(i)
        \/ SyncUnlock(i)
        \/ Replace(i)

Save2Spec == Save2Init /\ [][Save2Next]_vars

----------------------------------------------------------------------------
\* Properties

FetchFailures ==
    { "ReadTimeout", "ConnectError", "HTTPStatusError", "JSONDecodeError",
      "ValueError" }

\* C1: a transport error, a timeout, a non-2xx status, a body that is not
\* JSON and a body without "apps" are all retried: fetch_apps raises one of
\* them to its caller only when it occurred on the last of the retries
\* attempts.
C1_FailuresAreRetried ==
    (pc = "fetched" /\ fetched.kind = "raise" /\ fetched.exc \in FetchFailures)
        => gets = retries

RECURSIVE TrailingFails(_)
TrailingFails(seq) ==
    IF seq = << >> \/ seq[Len(seq)] # "fail" THEN 0
    ELSE 1 + TrailingFails(SubSeq(seq, 1, Len(seq) - 1))

\* C3: the failure counter is the number of failed fetches since the last
\* successful one; the loop exits by the ceiling exactly when that number
\* reaches max_failures, logging the error, with a non-zero status and
\* without another fetch.
C3_FailureCeiling ==
    /\ consecutive_failures = TrailingFails(outcomes)
    /\ (exit_reason = "ceiling") <=> (TrailingFails(outcomes) >= max_failures)
    /\ exit_reason = "ceiling" =>
         /\ TrailingFails(outcomes) = max_failures
         /\ "max_failures" \in errors_logged
         /\ pc \in {"finally", "terminated"}
         /\ pc = "terminated" => exit_status = 1

C3_Witness ==
    /\ pc = "terminated"
    /\ exit_reason = "ceiling"
    /\ max_failures = 2
    /\ outcomes = << "ok", "fail", "fail" >>

\* C4: however the loop is left (shutdown, exception, sys.exit, --once), the
\* finally block saves the state exactly once, and the state file of the
\* terminated process holds the last known snapshot.
C4_PersistOnExit ==
    /\ pc # "terminated" => exit_saves = 0
    /\ pc = "terminated" =>
         /\ exit_saves = 1
         /\ exit_reason \in {"shutdown", "exception", "ceiling", "once_fail",
                             "once_ok"}
         /\ state = last_good
         /\ file = FileOf(Serialize(last_good))

C4_Witness ==
    /\ pc = "terminated"
    /\ exit_reason = "exception"
    /\ outcomes = << "ok", "ok" >>
    /\ state # EmptyDict
    /\ file = FileOf(Serialize(state))

\* The state file as the last completed cycle left it, or as the run found
\* it when no cycle has completed.
FileOfLastGood ==
    IF last_good = LoadKnownApps(old_file).data
    THEN old_file
    ELSE FileOf(Serialize(last_good))

\* C5: an exit by the ceiling has a non-zero status and leaves the snapshot
\* of the last successful cycle (or the loaded one) in the state file; a
\* failed cycle changes neither the state nor the file.
C5_CeilingKeepsLastGood ==
    /\ (pc = "terminated" /\ exit_reason = "ceiling") =>
         /\ exit_status = 1
         /\ file = FileOf(Serialize(last_good))
    /\ (pc = "backoff_sleep" \/ (pc = "finally" /\ exit_reason = "ceiling")) =>
         /\ state = last_good
         /\ file = FileOfLastGood

C5_Witness ==
    /\ pc = "terminated"
    /\ exit_reason = "ceiling"
    /\ old_file.exists
    /\ last_good # LoadKnownApps(old_file).data
    /\ file = FileOf(Serialize(last_good))
    /\ file # old_file

SleepingPcs == {"sleep_check", "sleep_chunk"}

\* C6: after a shutdown request that arrives during the sleep between two
\* cycles at most one second of sleep goes by, no fetch is started, the next
\* step towards the exit is never blocked, and the state file is written
\* once, by the exit.
C6_ShutdownDuringSleep ==
    signal_at \in SleepingPcs =>
        /\ ticks_since_signal <= 1
        /\ pc \in SleepingPcs \cup {"loop_top", "finally", "terminated"}
        /\ writes_since_signal = IF pc = "terminated" THEN 1 ELSE 0
        /\ pc # "terminated" =>
              ENABLED (SleepCheck \/ SleepChunk \/ LoopCheck \/ Finally)

C6_Witness ==
    /\ signal_at = "sleep_chunk"
    /\ pc = "terminated"
    /\ ticks_since_signal = 1
    /\ sleepLeft > 0
    /\ exit_status = 0

\* C7: a shutdown request that arrives during the escalated sleep after a
\* failed cycle or during the sleep between two fetch attempts is honoured
\* within one second.
C7_EverySleepInterruptible ==
    signal_at \in {"backoff_sleep", "retry_sleep"} => ticks_since_signal <= 1

FetchingPcs == {"fetch_call", "get", "retry_sleep", "fetched"}

\* C8: while a fetch is under way the state file holds the snapshot of the
\* last completed cycle: the cycle's save comes before the next fetch.
C8_PersistedBeforeNextFetch ==
    pc \in FetchingPcs =>
        /\ state = last_good
        /\ file = FileOfLastGood

C8_Witness ==
    /\ pc = "get"
    /\ poll = 2
    /\ outcomes = << "ok" >>
    /\ state # LoadKnownApps(old_file).data
    /\ file = FileOf(Serialize(state))

\* C9: the exit status is 0 exactly after a clean shutdown or a successful
\* --once cycle and non-zero exactly after the ceiling or a failed --once
\* fetch; a --once run ends after one cycle, with a non-zero status when its
\* fetch failed whatever the ceiling.
C9_ExitStatus ==
    /\ pc = "terminated" =>
         /\ exit_status = 0 <=> exit_reason \in {"shutdown", "once_ok"}
         /\ exit_status # 0 <=> exit_reason \in {"ceiling", "once_fail"}
    /\ once => poll <= 1
    /\ (once /\ pc = "terminated" /\ outcomes = << "fail" >>) => exit_status # 0

\* C10: at every point of a save, a crash included, the state file holds
\* its previous content or the whole serialization of the state; it is
\* untouched until the rename, which sees a temporary file that is complete
\* and synced.
C10_AtomicSave ==
    /\ file \in {old_file, FileOf(Serialize(state))}
    /\ pc \in {"save_open", "save_write", "save_replace"} => file = old_file
    /\ pc = "save_replace" => tmp = FileOf(Serialize(state)) /\ tmp_synced
    /\ pc = "saved" => file = FileOf(Serialize(state)) /\ ~tmp.exists

C10_Witness ==
    /\ pc = "crashed"
    /\ tmp.exists
    /\ Len(tmp.content) >= 2
    /\ Len(tmp.content) < Len(Serialize(state))
    /\ file = old_file
    /\ file # FileOf(Serialize(state))

\* The position of a package id in lexicographic order.
PkgIndex(p) == CHOOSE i \in 1..Len(PkgOrder) : PkgOrder[i] = p

\* In lexicographic order, strictly: sorted and without duplicates.
StrictlyAscending(seq) ==
    \A i, j \in 1..Len(seq) : i < j => PkgIndex(seq[i]) < PkgIndex(seq[j])

SameHashes(o, n) ==
    \A h \in {"h1", "h2", "h3"} :
        (\E i \in 1..Len(o.signing_cert_hashes[1]) :
            o.signing_cert_hashes[1][i] = h)
        <=> (\E i \in 1..Len(n.signing_cert_hashes[1]) :
                n.signing_cert_hashes[1][i] = h)

\* C11: diff_apps(old, new) returns as added the keys of new that are not
\* in old, as removed the keys of old that are not in new, as updated the
\* common keys whose min_version_code differs and as cert_changed the common
\* keys whose hashes differ as sets; each list is in lexicographic order
\* without duplicates, added and removed are disjoint from each other and
\* from the other two lists, and with an empty old every key of new is added
\* and the other three lists are empty.
C11_DiffApps ==
    (call.fn = "diff_apps" /\ call.done) =>
        LET old == call.old
            new == call.new
            r == call.result
            both == DOMAIN old \cap DOMAIN new
        IN  /\ Range(r.added) = DOMAIN new \ DOMAIN old
            /\ Range(r.removed) = DOMAIN old \ DOMAIN new
            /\ Range(r.updated) =
                 {p \in both : old[p].min_version_code # new[p].min_version_code}
            /\ Range(r.cert_changed) = {p \in both : ~SameHashes(old[p], new[p])}
            /\ StrictlyAscending(r.added)
            /\ StrictlyAscending(r.removed)
            /\ StrictlyAscending(r.updated)
            /\ StrictlyAscending(r.cert_changed)
            /\ Range(r.added) \cap Range(r.removed) = {}
            /\ Range(r.added) \cap (Range(r.updated) \cup Range(r.cert_changed)) = {}
            /\ Range(r.removed) \cap (Range(r.updated) \cup Range(r.cert_changed)) = {}
            /\ old = EmptyDict =>
                 /\ Range(r.added) = DOMAIN new
                 /\ Len(r.added) = Cardinality(DOMAIN new)
                 /\ r.removed = << >>
                 /\ r.updated = << >>
                 /\ r.cert_changed = << >>

\* A diff in which a package was added, one removed, and the common one
\* changed its version and the order of its hashes, but not the hashes.
C11_Witness ==
    /\ call.fn = "diff_apps"
    /\ call.done
    /\ call.result = [added |-> <<"com.c">>, removed |-> <<"com.b">>,
                      updated |-> <<"com.a">>, cert_changed |-> << >>]
    /\ call.old["com.a"].signing_cert_hashes # call.new["com.a"].signing_cert_hashes

\* C12: load_known_apps after save_known_apps(S) returns (S, True) for every
\* valid snapshot S, whatever the state file held before; a process started
\* after the previous one ended loads the snapshot that one saved last.
C12_RoundTrip ==
    pc = "loaded" =>
        /\ call.result = [data |-> last_good, existed |-> TRUE,
                          logged_error |-> FALSE, raised |-> "none"]
        /\ state = last_good
        /\ file = FileOf(Serialize(last_good))

\* A second save over the file of a first one, of a snapshot with a null
\* "repo_timestamp", loaded by the next run.
C12_Witness ==
    /\ pc = "loaded"
    /\ state = BuildState(ValidateAppMetadata(AppsB), 1, None)
    /\ old_file = FileOf(Serialize(PreviousState))
    /\ first_run = FALSE

\* C13: load_known_apps returns an empty snapshot with existed = False when
\* there is no state file, and an empty snapshot with existed = True and a
\* logged error when the file does not decode; no content of the state file
\* makes the process fail or end.
C13_CorruptStateNeverFatal ==
    pc # "start" =>
        /\ ~file.exists =>
             call.result = [data |-> EmptyDict, existed |-> FALSE,
                            logged_error |-> FALSE, raised |-> "none"]
        /\ (file.exists /\ file \notin {FileOf(Serialize(s)) : s \in Snapshots}) =>
             /\ call.result = [data |-> EmptyDict, existed |-> TRUE,
                               logged_error |-> TRUE, raised |-> "none"]
             /\ "state_corrupted" \in errors_logged
        /\ pc = "loop_top"
        /\ exit_status = -1

FullyPopulated(meta) ==
    meta.signing_cert_hashes # None /\ meta.min_version_code # None

\* C14: validate_app_metadata returns the entries of its argument that have
\* both "signing_cert_hashes" and "min_version_code" present and not null,
\* each as it was, and no other entry; an argument whose entries all have
\* both is returned as it is.
C14_ValidateKeepsPopulated ==
    (call.fn = "validate_app_metadata" /\ call.done) =>
        LET apps == call.apps
            good == call.result
        IN  /\ DOMAIN good = {p \in DOMAIN apps : FullyPopulated(apps[p])}
            /\ \A p \in DOMAIN good : good[p] = apps[p]
            /\ (\A p \in DOMAIN apps : FullyPopulated(apps[p])) => good = apps

\* One entry kept with a version of 0 and an empty hash list, one dropped
\* for its missing version, one dropped for its missing hashes.
C14_Witness ==
    /\ call.fn = "validate_app_metadata"
    /\ call.done
    /\ DOMAIN call.apps = {"com.a", "com.b", "com.c"}
    /\ DOMAIN call.result = {"com.a"}
    /\ call.result["com.a"] = Meta("X", Some(0), Some(<< >>))
    /\ call.apps["com.b"].min_version_code = None
    /\ call.apps["com.b"].signing_cert_hashes # None
    /\ call.apps["com.c"].signing_cert_hashes = None

\* The multipliers 1, 2, 4, 8, 8, ... of the claim.
ClaimedMultiplier(k) ==
    IF k = 1 THEN 1 ELSE IF k = 2 THEN 2 ELSE IF k = 3 THEN 4 ELSE 8

\* C15: after the k-th consecutive failed cycle the delay before the next
\* poll is interval * min(2^(k-1), 8) times a jitter within [0.8, 1.2], less
\* the time the cycle took and never negative; the multiplier is 1, 2, 4, 8,
\* 8, ... and never above 8.  Durations are in tenths of a second.
C15_BackoffDelay ==
    (call.fn = "backoff" /\ call.done) =>
        /\ call.backoff_multiplier = ClaimedMultiplier(call.failures)
        /\ call.backoff_multiplier <= 8
        /\ call.sleep_time >= call.interval * call.backoff_multiplier * 8
        /\ call.sleep_time <= call.interval * call.backoff_multiplier * 12
        /\ call.remaining_sleep >= 0
        /\ call.remaining_sleep =
             (IF call.sleep_time >= 10 * call.elapsed
              THEN call.sleep_time - 10 * call.elapsed ELSE 0)
        /\ 10 * call.ticks >= call.remaining_sleep
        /\ 10 * call.ticks < call.remaining_sleep + 10

\* The fifth failure in a row, where doubling would give 16: interval 2,
\* jitter 1.2, one second elapsed.
C15_Witness ==
    /\ call.fn = "backoff"
    /\ call.done
    /\ call.failures = 5
    /\ call.backoff_multiplier = 8
    /\ call.sleep_time = 192
    /\ call.remaining_sleep = 182
    /\ call.ticks = 19

\* The lines emitted for a diff are a first line, then one line per package
\* of added, of removed, of updated and of cert_changed, in that order, at
\* INFO for added and updated and at WARNING for removed and cert_changed.
LinesInCategoryOrder(lines, d) ==
    LET a == Len(d.added)
        r == Len(d.removed)
        u == Len(d.updated)
        c == Len(d.cert_changed)
    IN  /\ Len(lines) = 1 + a + r + u + c
        /\ \A i \in 1..a :
              lines[1 + i] = [level |-> "INFO", tag |-> "NEW",
                              pkg |-> d.added[i]]
        /\ \A i \in 1..r :
              lines[1 + a + i] = [level |-> "WARNING", tag |-> "REMOVED",
                                  pkg |-> d.removed[i]]
        /\ \A i \in 1..u :
              lines[1 + a + r + i] = [level |-> "INFO", tag |-> "UPDATED",
                                      pkg |-> d.updated[i]]
        /\ \A i \in 1..c :
              lines[1 + a + r + u + i] = [level |-> "WARNING", tag |-> "CERT",
                                          pkg |-> d.cert_changed[i]]

NoChangesLine == [level |-> "INFO", tag |-> "No changes", pkg |-> ""]

AtLeast(level, floor) ==
    \/ level = floor
    \/ floor = "DEBUG"
    \/ floor = "INFO" /\ level \in {"WARNING", "ERROR"}
    \/ floor = "WARNING" /\ level = "ERROR"

ReportDone == call.fn = "notify" /\ call.todo = << >>

\* C16 as stated: one line per changed package in the order added, removed,
\* updated, cert_changed, at INFO for added and updated and at WARNING for
\* removed and cert_changed; every line goes to the log whether quiet or
\* not, and to the console only when not quiet; a cycle without changes
\* emits the one "No changes" line at INFO.
C16_EveryLineLogged ==
    ReportDone =>
        /\ LinesInCategoryOrder(call.emitted, call.diff)
        /\ call.log = call.emitted
        /\ call.console = (IF call.quiet THEN << >> ELSE call.emitted)
        /\ call.diff = NoDiff => call.emitted = << NoChangesLine >>

\* C16, amended: as above, but the log holds the lines whose severity is at
\* or above the level of --log-level, in the order emitted, whether quiet or
\* not: every line at INFO (the default) and DEBUG, the warnings alone at
\* WARNING, none of these lines at ERROR.
C16_LinesAtLogLevelLogged ==
    ReportDone =>
        /\ LinesInCategoryOrder(call.emitted, call.diff)
        /\ call.log = SelectSeq(call.emitted,
                                LAMBDA l : AtLeast(l.level, call.log_level))
        /\ call.log_level \in {"DEBUG", "INFO"} => call.log = call.emitted
        /\ call.console = (IF call.quiet THEN << >> ELSE call.emitted)
        /\ call.diff = NoDiff => call.emitted = << NoChangesLine >>

\* A quiet run at --log-level WARNING with a change of each kind: nothing
\* on the console, the two warnings in the log.
C16_Witness ==
    /\ ReportDone
    /\ call.quiet
    /\ call.log_level = "WARNING"
    /\ call.diff = [added |-> <<"com.c">>, removed |-> <<"com.b">>,
                    updated |-> <<"com.a">>, cert_changed |-> <<"com.a">>]
    /\ call.console = << >>
    /\ Len(call.emitted) = 5
    /\ call.log = << [level |-> "WARNING", tag |-> "REMOVED", pkg |-> "com.b"],
                     [level |-> "WARNING", tag |-> "CERT", pkg |-> "com.a"] >>

\* What the name holds: nothing, or the content of its inode.
ContentAt(name) ==
    IF fsys.paths[name] = NoInode THEN << >>
    ELSE fsys.inodes[fsys.paths[name]]

\* The chunks come from one serialization only: a beginning of what one of
\* the two instances saves, or the state file as it was at the start.
FromOneSave(content) ==
    \/ \E i \in Instances : content \in Prefixes(Serialize(procs[i].data))
    \/ content = Serialize(PreviousState)

BothEnded == \A i \in Instances : procs[i].pc \in {"saved", "raised"}

\* C17: when two instances save to the same path at the same time, under
\* every interleaving of their steps each save ends without an exception,
\* the state file then holds the whole serialization of one of the two
\* snapshots, and neither the temporary file nor the state file ever holds
\* chunks of both.
C17_ConcurrentSaves ==
    /\ \A i \in Instances : procs[i].raised = "none"
    /\ BothEnded =>
         \E i \in Instances : ContentAt("target") = Serialize(procs[i].data)
    /\ FromOneSave(ContentAt("tmp"))
    /\ FromOneSave(ContentAt("target"))

\* More ticks than any one sleep of the run has: a sleep between attempts
\* is under twice the delay, which doubles with each attempt, and a sleep
\* after a cycle is under ten intervals.
LongestSleep == 2 * base_delay * Pow2(retries) + 10 * interval + 1

\* How far the run is from its end once the flag is set: the position in
\* the cycle, then the attempts left, then the ticks of sleep left.
Rank ==
    LET afterFetch == LongestSleep + 5
        perAttempt == LongestSleep + 2
    IN  CASE pc = "terminated" -> 0
          [] pc = "finally" -> 1
          [] pc = "loop_top" -> 2
          [] pc = "sleep_check" -> 3
          [] pc = "sleep_chunk" -> 4
          [] pc = "backoff_sleep" -> 3 + sleepLeft
          [] pc = "fetched" -> afterFetch
          [] pc = "get" -> afterFetch + 1 + (retries - attempt) * perAttempt
          [] pc = "retry_sleep" ->
                afterFetch + 2 + (retries - attempt - 1) * perAttempt + sleepLeft
          [] pc = "fetch_call" -> afterFetch + 2 + retries * perAttempt

\* The step the run is at can be taken.  An attempt has no condition but
\* its position: the endpoint answers in one of the ways of Responses.
NextStepPossible ==
    /\ pc = "loop_top" => ENABLED LoopCheck
    /\ pc = "fetch_call" => ENABLED FetchEnter
    /\ pc = "get" => Responses # {} /\ RetryJitter # {}
    /\ pc = "retry_sleep" => ENABLED (RetrySleepTick \/ RetrySleepDone)
    /\ pc = "fetched" => ENABLED (FetchSucceeded \/ FetchFailed)
    /\ pc = "backoff_sleep" => ENABLED (BackoffTick \/ BackoffDone)
    /\ pc = "sleep_check" => ENABLED SleepCheck
    /\ pc = "sleep_chunk" => ENABLED SleepChunk
    /\ pc = "finally" => ENABLED Finally

\* C18: once the shutdown flag is set no new cycle is begun; a fetch in
\* flight at that moment runs on, and its cycle has its outcome before the
\* loop is left; from then on every step brings the run nearer to its end
\* and a next step is always possible, so the run reaches Terminated.
C18_NoNewCycleAfterShutdown ==
    /\ [][shutdown => (poll' = poll /\ Rank' < Rank)]_vars
    /\ [](shutdown => NextStepPossible)
    /\ [](signal_at \in FetchingPcs /\ pc \in {"finally", "terminated"} =>
            Len(outcomes) = poll)

\* The request came during the first GET of the second cycle; the GET
\* failed, a later attempt of the same fetch returned, the cycle saved its
\* snapshot, and the run ended with status 0 without a third cycle.
C18_Witness ==
    /\ signal_at = "get"
    /\ pc = "terminated"
    /\ poll = 2
    /\ gets >= 2
    /\ outcomes = << "ok", "ok" >>
    /\ writes_since_signal = 2
    /\ exit_status = 0

\* The step that ends a cycle whose fetch returned and whose validation
\* went through: the new state is built from the validated feed alone.
SuccessfulCycleEnds ==
    /\ pc = "fetched"
    /\ fetched.kind = "return"
    /\ fetched.body.is_mapping
    /\ outcomes' = Append(outcomes, "ok")
    /\ state' = BuildState(ValidateAppMetadata(fetched.body.apps), poll,
                           fetched.body.timestamp)
    /\ file' = FileOf(Serialize(state'))

\* The save on the way out: the file gets the state, the state stays.
ExitSave == pc = "finally" /\ state' = state /\ file' = FileOf(Serialize(state))

\* C19: a cycle whose fetch fails changes neither the snapshot in memory
\* nor the state file, from its start to the end of its sleep; the snapshot
\* changes only in the step that ends a cycle whose fetch and validation
\* succeeded, and then as a whole; the file changes only there and in the
\* save on exit.
C19_FailedCycleKeepsState ==
    /\ [][(state' # state) => SuccessfulCycleEnds]_vars
    /\ [][(file' # file) => (SuccessfulCycleEnds \/ ExitSave)]_vars
    /\ [][(outcomes' = Append(outcomes, "fail")) =>
            (state' = state /\ file' = file)]_vars
    /\ []((pc \in FetchingPcs \cup {"backoff_sleep"}) =>
            (state = last_good /\ file = FileOfLastGood))

\* A failed cycle after a successful one, in its sleep: state and file are
\* those of the successful cycle.
C19_Witness ==
    /\ pc = "backoff_sleep"
    /\ outcomes = << "ok", "fail" >>
    /\ state # EmptyDict
    /\ state # LoadKnownApps(old_file).data
    /\ file = FileOf(Serialize(state))

\* The step in which a cycle reports its diff: the fetch returned a mapping
\* of apps.
CycleReports ==
    /\ pc = "fetched"
    /\ fetched.kind = "return"
    /\ fetched.body.is_mapping
    /\ outcomes' = Append(outcomes, "ok")

\* The feed has the packages of the snapshot, each with the name, version
\* and hashes the snapshot has.
SameAsSnapshot(feed, snapshot) ==
    /\ DOMAIN feed = DOMAIN snapshot
    /\ \A p \in DOMAIN feed :
          /\ feed[p].name = snapshot[p].name
          /\ feed[p].min_version_code = snapshot[p].min_version_code
          /\ feed[p].signing_cert_hashes = snapshot[p].signing_cert_hashes

\* C20: a successful cycle reports the diff between the snapshot of the
\* last successful cycle before it (or the one loaded at the start) and its
\* validated feed, whatever failed cycles lie between: {com.a v1, com.b}
\* followed by {com.a v2, com.c} reports com.c added, com.b removed and
\* com.a updated, and a feed equal to the one before reports no changes.
C20_DiffAgainstLastGood ==
    /\ [][CycleReports =>
            reported' = DiffApps(last_good,
                                 ValidateAppMetadata(fetched.body.apps))]_vars
    /\ [][(CycleReports /\ fetched.body.apps = AppsB
             /\ SameAsSnapshot(AppsA, last_good)) =>
            reported' = [added |-> <<"com.c">>, removed |-> <<"com.b">>,
                         updated |-> <<"com.a">>, cert_changed |-> << >>]]_vars
    /\ [][(CycleReports
             /\ SameAsSnapshot(ValidateAppMetadata(fetched.body.apps),
                               last_good)) =>
            reported' = NoDiff]_vars
    /\ [][(outcomes' = Append(outcomes, "fail")) =>
            (reported' = reported /\ last_good' = last_good)]_vars

\* No state file at the start; {com.a v1, com.b} in the first cycle, a
\* failed second cycle, {com.a v2, com.c} in the third.
C20_Witness ==
    /\ ~old_file.exists
    /\ outcomes = << "ok", "fail", "ok" >>
    /\ pc = "sleep_check"
    /\ SameAsSnapshot(AppsB, state)
    /\ reported = [added |-> <<"com.c">>, removed |-> <<"com.b">>,
                   updated |-> <<"com.a">>, cert_changed |-> << >>]

====
